---- MODULE Spec2Model ----
(***************************************************************************)
(* OxideAudioProcessorEditor (Source/PluginEditor.h, Source/PluginEditor.cpp) *)
(* as a state machine: the constructor and the destructor statement by     *)
(* statement, the visualizer timer, the browser's event listeners, the     *)
(* activation subsystem's worker and the UI thread's message queue.        *)
(***************************************************************************)
EXTENDS Integers, Sequences, FiniteSets, TLC

\* ------------------------------------------------------------------ bounds

\* the timer ticks and browser events a behaviour may hold, taken together
MaxInputs == 3

\* ------------------------------------------------------- the editor's members

\* the parameter keys, in the order the header declares their relays
ParameterIDs ==
    << "bitcrush", "downsample", "noise", "crackle", "wobble", "dropout",
       "saturation", "age", "filterCutoff", "filterRes", "filterDrive",
       "mode", "mix", "output", "bypass" >>

NumParams == Len(ParameterIDs)

Params == 1..NumParams

\* the key each relay member is constructed with
RelayKey == [i \in Params |-> ParameterIDs[i]]

\* the parameter each attachment member is constructed on:
\* *apvts.getParameter(ParameterIDs::x)
AttachmentParameter == [i \in Params |-> ParameterIDs[i]]

\* a plausible slip: a pasted line left with its neighbour's relay, so that
\* the attachment of "mix" drives the relay of "output"
AttachmentRelaySharedRelay ==
    [i \in Params |-> IF ParameterIDs[i] = "mix" THEN i + 1 ELSE i]

\* the relay member each attachment member is constructed on: *xRelay
AttachmentRelay == [i \in Params |-> i]

Member(kind, p) == [kind |-> kind, p |-> p]

\* a plausible slip: the browser view declared between the relays and the
\* attachments, so that the attachments are destroyed before the view
DeclarationOrderViewBeforeAttachments ==
    [i \in 1..NumParams |-> Member("relay", i)]
    \o << Member("webView", 0) >>
    \o [i \in 1..NumParams |-> Member("attachment", i)]
    \o << Member("resourcesDir_", 0), Member("visualizerTimer", 0) >>

\* the data members of the class in declaration order (processorRef is a
\* reference and has no destructor)
DeclarationOrder ==
    [i \in 1..NumParams |-> Member("relay", i)]
    \o [i \in 1..NumParams |-> Member("attachment", i)]
    \o << Member("webView", 0), Member("resourcesDir_", 0),
          Member("visualizerTimer", 0) >>

\* a run of like statements, one per parameter of ps, taken as one step
Stmt(op, ps) == [op |-> op, ps |-> ps]

\* setupWebView(): the options are built (one withOptionsFrom per relay, then
\* the event listeners), then the browser view is constructed from them
SetupWebViewBody ==
    << Stmt("withOptionsFrom", Params), Stmt("withEventListener", {}),
       Stmt("makeWebView", {}) >>

\* a plausible slip: the timer started before the attachments are made
ConstructorBodyTimerEarly ==
    << Stmt("makeRelay", Params) >>
    \o SetupWebViewBody
    \o << Stmt("startTimerHz", {}), Stmt("makeAttachment", Params) >>

\* a plausible slip: the last attachment made before setupWebView() is called
ConstructorBodyAttachmentEarly ==
    << Stmt("makeRelay", Params), Stmt("makeAttachment", {NumParams}) >>
    \o SetupWebViewBody
    \o << Stmt("makeAttachment", Params \ {NumParams}),
          Stmt("startTimerHz", {}) >>

\* the constructor's statements in program order: the fifteen relays,
\* setupWebView(), the fifteen attachments, the timer
ConstructorBody ==
    << Stmt("makeRelay", Params) >>
    \o SetupWebViewBody
    \o << Stmt("makeAttachment", Params), Stmt("startTimerHz", {}) >>

\* ------------------------------------------------------------------- state

VARIABLES
    pc,            \* "constructor", "live", "members" (being destroyed), "destroyed"
    cpos,          \* the next statement of ConstructorBody
    dpos,          \* the next member of DeclarationOrder to destroy (counts down)
    relay,         \* the parameters whose relay object is alive
    registered,    \* the parameters whose relay is in the view's options
    attachment,    \* the parameters whose attachment object is alive
    listeners,     \* the native event names the view's options listen to
    webView,       \* "null", "alive", "destroyed"
    visible,       \* the browser is visible
    timerRunning,  \* visualizerTimer is running
    ticks,         \* timerCallback calls so far
    samples,       \* metering snapshots read so far
    emitted,       \* events delivered to the browser, per event id
    lastEmit,      \* the most recent dereference of webView for an emission
    crashed        \* undefined behaviour ended the process

\* the activation build and the activation subsystem
VARIABLES
    activationBuild,       \* BEATCONNECT_ACTIVATION_ENABLED
    activation,            \* processorRef.getActivation(): "null" or "present"
    hasActivationEnabled,  \* processorRef.hasActivationEnabled()
    isConfigured,          \* activation->isConfigured()
    isActivated,           \* activation->isActivated()
    pending,               \* requests the subsystem has not completed yet
    msgQueue,              \* the UI thread's queue of callAsync tasks
    requests,              \* activate/deactivate events the browser has sent
    forwarded,             \* calls made to the activation subsystem
    outcomes               \* terminal outcomes the subsystem has reported

\* the documented activation lifecycle, followed along with the requests
VARIABLES
    lifecycle,             \* the lifecycle state the forwarded calls have led to
    licenseRequests        \* activateLicense / deactivateLicense events handled

\* the resource provider: the files on disk and the browser's last request
VARIABLES
    disk,                  \* the existing files: full path |-> contents
    request,               \* the url of the last resource request
    response               \* what the provider returned for it

editorVars == << pc, cpos, dpos, relay, registered, attachment, listeners,
                 webView, visible, timerRunning >>
feedVars == << ticks, samples >>
activationVars == << activationBuild, activation, hasActivationEnabled,
                     isConfigured, isActivated >>
bridgeVars == << pending, msgQueue, requests, forwarded, outcomes >>
lifecycleVars == << lifecycle, licenseRequests >>
resourceVars == << disk, request, response >>
vars == << editorVars, feedVars, emitted, lastEmit, crashed,
           activationVars, bridgeVars, lifecycleVars, resourceVars >>

EventIds == { "visualizerData", "activationState", "activationResult",
              "deactivationResult" }

NoEmit == [ path |-> "none", thread |-> "none", view |-> "none",
            visible |-> FALSE, delivered |-> FALSE, id |-> "none",
            data |-> [none |-> TRUE],
            handle |-> "none", wasConfigured |-> FALSE, wasActivated |-> FALSE ]

\* -------------------------------------------------------- resource provider

\* strings are sequences of characters
StartsWith(s, p) == Len(p) <= Len(s) /\ SubSeq(s, 1, Len(p)) = p

EndsWith(s, p) == Len(p) <= Len(s) /\ SubSeq(s, Len(s) - Len(p) + 1, Len(s)) = p

Contains(s, p) == \E i \in 1..Len(s) : StartsWith(SubSeq(s, i, Len(s)), p)

\* juce::String::substring(start), start counted from 0
Substring(s, start) == SubSeq(s, start + 1, Len(s))

\* position of the last c in s, 0 when there is none
LastIndexOfChar(s, c) ==
    LET at == { i \in 1..Len(s) : s[i] = c }
    IN  IF at = {} THEN 0 ELSE CHOOSE i \in at : \A j \in at : j <= i

IndexHtml == << "i", "n", "d", "e", "x", ".", "h", "t", "m", "l" >>

\* the directory setupWebView found next to the executable
resourcesDir_ == << "/", "r" >>

\* a file next to the resources directory, not part of the web UI
OutsideFile == << "/", "s", ".", "t", "x", "t" >>

\* the files the web UI ships
ResourceNames ==
    { << "i", "n", "d", "e", "x", ".", "h", "t", "m", "l" >>,
      << "a", ".", "c", "s", "s" >>,
      << "a", ".", "j", "s" >>,
      << "a", ".", "j", "s", "o", "n" >>,
      << "a", ".", "p", "n", "g" >>,
      << "a", ".", "s", "v", "g" >>,
      << "a", ".", "w", "o", "f", "f", "2" >>,
      << "a", ".", "w", "o", "f", "f" >>,
      << "a", ".", "t", "x", "t" >>,
      << "a" >>,
      << "A", ".", "J", "S" >>,
      << ".", "h", "t", "m", "l" >>,
      << "d", ".", "j", "s", "/", "a" >> }

ResourceFiles == { resourcesDir_ \o << "/" >> \o n : n \in ResourceNames }

\* what may be missing from an installation
OptionalFiles ==
    { resourcesDir_ \o << "/" >> \o IndexHtml,
      resourcesDir_ \o << "/" >> \o << "a", ".", "j", "s", "o", "n" >>,
      OutsideFile }

Disks ==
    { [f \in (ResourceFiles \cup {OutsideFile}) \ missing |-> << f, v >>] :
          missing \in SUBSET OptionalFiles, v \in {"v1", "v2"} }

\* the urls the browser asks for
UrlPrefixes == { << >>, << "/" >>, << "/", "/" >>, << "/", ".", ".", "/" >>, << "/", ".", "/" >> }

Urls ==
    { pre \o n : pre \in UrlPrefixes,
                 n \in ResourceNames \cup { << >>, << "m", ".", "j", "s" >>, << "s", ".", "t", "x", "t" >> } }

NoRequest == [asked |-> FALSE]

NullOpt == [found |-> FALSE]

\* juce::File::isAbsolutePath
IsAbsolutePath(r) == StartsWith(r, << "/" >>)

\* juce::File::getChildFile(relativePath): an absolute path stands for itself;
\* each leading "../" climbs one directory and each leading "./" is dropped
RECURSIVE GetChildFile(_, _)
GetChildFile(dir, r) ==
    IF IsAbsolutePath(r) THEN r
    ELSE IF r = << ".", "." >> \/ StartsWith(r, << ".", ".", "/" >>)
    THEN LET lastSlash == LastIndexOfChar(dir, "/")
             up == IF lastSlash >= 1 THEN SubSeq(dir, 1, lastSlash - 1) ELSE dir
             rest == IF r = << ".", "." >> THEN << >> ELSE Substring(r, 3)
         IN  IF rest = << >> THEN up
             ELSE IF StartsWith(rest, << "/" >>) THEN up \o rest
             ELSE GetChildFile(up, rest)
    ELSE IF r = << "." >> \/ StartsWith(r, << ".", "/" >>)
    THEN LET rest == IF r = << "." >> THEN << >> ELSE Substring(r, 2)
         IN  IF rest = << >> THEN dir
             ELSE IF StartsWith(rest, << "/" >>) THEN dir \o rest
             ELSE GetChildFile(dir, rest)
    ELSE dir \o << "/" >> \o r

ExistsAsFile(file) == file \in DOMAIN disk

\* the provider's path: one leading "/" stripped, the empty path is index.html
RequestedPath(url) ==
    LET path == IF StartsWith(url, << "/" >>) THEN Substring(url, 1) ELSE url
    IN  IF path = << >> THEN IndexHtml ELSE path

\* a plausible variant: the .js test looks for ".js" anywhere in the path
MimeTypeJsAnywhere(path) ==
    IF EndsWith(path, << ".", "h", "t", "m", "l" >>) THEN "text/html"
    ELSE IF EndsWith(path, << ".", "c", "s", "s" >>) THEN "text/css"
    ELSE IF Contains(path, << ".", "j", "s" >>) THEN "application/javascript"
    ELSE IF EndsWith(path, << ".", "j", "s", "o", "n" >>) THEN "application/json"
    ELSE IF EndsWith(path, << ".", "p", "n", "g" >>) THEN "image/png"
    ELSE IF EndsWith(path, << ".", "s", "v", "g" >>) THEN "image/svg+xml"
    ELSE IF EndsWith(path, << ".", "w", "o", "f", "f", "2" >>) THEN "font/woff2"
    ELSE "application/octet-stream"

\* the if / else-if chain on path.endsWith
MimeType(path) ==
    IF EndsWith(path, << ".", "h", "t", "m", "l" >>) THEN "text/html"
    ELSE IF EndsWith(path, << ".", "c", "s", "s" >>) THEN "text/css"
    ELSE IF EndsWith(path, << ".", "j", "s" >>) THEN "application/javascript"
    ELSE IF EndsWith(path, << ".", "j", "s", "o", "n" >>) THEN "application/json"
    ELSE IF EndsWith(path, << ".", "p", "n", "g" >>) THEN "image/png"
    ELSE IF EndsWith(path, << ".", "s", "v", "g" >>) THEN "image/svg+xml"
    ELSE IF EndsWith(path, << ".", "w", "o", "f", "f", "2" >>) THEN "font/woff2"
    ELSE "application/octet-stream"

\* the lambda given to withResourceProvider
ResourceProvider(url) ==
    LET path == RequestedPath(url)
        file == GetChildFile(resourcesDir_, path)
    IN  IF ~ExistsAsFile(file) THEN NullOpt
        ELSE [found |-> TRUE, data |-> disk[file], mimeType |-> MimeType(path)]

\* ------------------------------------------------------------ initial state

\* the members as default-initialised on entry to the constructor body; the
\* build flag and the processor's activation handle are fixed for the run
Init ==
    /\ pc = "constructor"
    /\ cpos = 1
    /\ dpos = 0
    /\ relay = {}
    /\ registered = {}
    /\ attachment = {}
    /\ listeners = {}
    /\ webView = "null"
    /\ visible = FALSE
    /\ timerRunning = FALSE
    /\ ticks = 0
    /\ samples = 0
    /\ emitted = [e \in EventIds |-> 0]
    /\ lastEmit = NoEmit
    /\ crashed = FALSE
    /\ activationBuild \in BOOLEAN
    /\ activation \in IF activationBuild THEN {"null", "present"} ELSE {"null"}
    /\ hasActivationEnabled \in IF activationBuild THEN BOOLEAN ELSE {FALSE}
    /\ isConfigured \in IF activation = "present" THEN BOOLEAN ELSE {FALSE}
    /\ isActivated = FALSE
    /\ pending = << >>
    /\ msgQueue = << >>
    /\ requests = 0
    /\ forwarded = 0
    /\ outcomes = 0
    /\ lifecycle = IF isConfigured THEN "Configured" ELSE "Unconfigured"
    /\ licenseRequests = 0
    /\ disk = << >>
    /\ request = NoRequest
    /\ response = NullOpt

\* ------------------------------------------------------------- constructor

AtStmt(op) ==
    /\ ~crashed
    /\ pc = "constructor"
    /\ cpos <= Len(ConstructorBody)
    /\ ConstructorBody[cpos].op = op

\* control moves to the next statement; after the last one the editor is live
Advance ==
    /\ cpos' = cpos + 1
    /\ pc' = IF cpos = Len(ConstructorBody) THEN "live" ELSE "constructor"

\* xRelay = std::make_unique<juce::WebSliderRelay>(ParameterIDs::x), for
\* each parameter x
MakeRelay ==
    /\ AtStmt("makeRelay")
    /\ relay' = relay \cup ConstructorBody[cpos].ps
    /\ Advance
    /\ UNCHANGED << dpos, registered, attachment, listeners, webView, visible,
                    timerRunning, feedVars, emitted, lastEmit, crashed,
                    activationVars, bridgeVars >>
    /\ UNCHANGED lifecycleVars
    /\ UNCHANGED resourceVars

\* .withOptionsFrom(*xRelay): dereferences the relay pointer; a null pointer
\* is undefined behaviour (the process dies, or the options are built anyway)
WithOptionsFrom ==
    /\ AtStmt("withOptionsFrom")
    /\ LET ps == ConstructorBody[cpos].ps IN
         IF ps \subseteq relay
         THEN /\ registered' = registered \cup ps
              /\ crashed' = FALSE
         ELSE \/ /\ crashed' = TRUE
                 /\ registered' = registered
              \/ /\ crashed' = FALSE
                 /\ registered' = registered \cup ps
    /\ Advance
    /\ UNCHANGED << dpos, relay, attachment, listeners, webView, visible,
                    timerRunning, feedVars, emitted, lastEmit,
                    activationVars, bridgeVars >>
    /\ UNCHANGED lifecycleVars
    /\ UNCHANGED resourceVars

\* .withEventListener(...): getActivationStatus always, the two license
\* events only in an activation build
WithEventListener ==
    /\ AtStmt("withEventListener")
    /\ listeners' = {"getActivationStatus"}
                      \cup (IF activationBuild
                            THEN {"activateLicense", "deactivateLicense"}
                            ELSE {})
    /\ Advance
    /\ UNCHANGED << dpos, relay, registered, attachment, webView, visible,
                    timerRunning, feedVars, emitted, lastEmit, crashed,
                    activationVars, bridgeVars >>
    /\ UNCHANGED lifecycleVars
    /\ UNCHANGED resourceVars

\* webView = std::make_unique<juce::WebBrowserComponent>(options);
\* addAndMakeVisible(*webView); webView->goToURL(...)
MakeWebView ==
    /\ AtStmt("makeWebView")
    /\ webView' = "alive"
    /\ visible' = TRUE
    /\ Advance
    /\ UNCHANGED << dpos, relay, registered, attachment, listeners,
                    timerRunning, feedVars, emitted, lastEmit, crashed,
                    activationVars, bridgeVars >>
    /\ UNCHANGED lifecycleVars
    /\ UNCHANGED resourceVars

\* xAttachment = std::make_unique<...ParameterAttachment>(*param, *xRelay, nullptr),
\* for each parameter x: dereferences the relay pointer like withOptionsFrom
MakeAttachment ==
    /\ AtStmt("makeAttachment")
    /\ LET ps == ConstructorBody[cpos].ps IN
         IF { AttachmentRelay[p] : p \in ps } \subseteq relay
         THEN /\ attachment' = attachment \cup ps
              /\ crashed' = FALSE
         ELSE \/ /\ crashed' = TRUE
                 /\ attachment' = attachment
              \/ /\ crashed' = FALSE
                 /\ attachment' = attachment \cup ps
    /\ Advance
    /\ UNCHANGED << dpos, relay, registered, listeners, webView, visible,
                    timerRunning, feedVars, emitted, lastEmit,
                    activationVars, bridgeVars >>
    /\ UNCHANGED lifecycleVars
    /\ UNCHANGED resourceVars

\* visualizerTimer.startTimerHz(60)
StartTimerHz ==
    /\ AtStmt("startTimerHz")
    /\ timerRunning' = TRUE
    /\ Advance
    /\ UNCHANGED << dpos, relay, registered, attachment, listeners, webView,
                    visible, feedVars, emitted, lastEmit, crashed,
                    activationVars, bridgeVars >>
    /\ UNCHANGED lifecycleVars
    /\ UNCHANGED resourceVars

\* -------------------------------------------------------------- destructor

\* ~OxideAudioProcessorEditor() { visualizerTimer.stopTimer(); }, after which
\* the members are destroyed in reverse declaration order
DestructorBody ==
    /\ ~crashed
    /\ pc = "live"
    /\ timerRunning' = FALSE
    /\ pc' = "members"
    /\ dpos' = Len(DeclarationOrder)
    /\ UNCHANGED << cpos, relay, registered, attachment, listeners, webView,
                    visible, feedVars, emitted, lastEmit, crashed,
                    activationVars, bridgeVars >>
    /\ UNCHANGED lifecycleVars
    /\ UNCHANGED resourceVars

\* the first member of the run of like members that ends at position d
RunStart(d) ==
    CHOOSE j \in 1..d :
        /\ \A k \in j..d : DeclarationOrder[k].kind = DeclarationOrder[d].kind
        /\ j = 1 \/ DeclarationOrder[j - 1].kind # DeclarationOrder[d].kind

\* the implicit destruction of the members, last declared first; the run of
\* like members that ends at DeclarationOrder[dpos] is taken as one step
DestroyMember ==
    /\ ~crashed
    /\ pc = "members"
    /\ dpos >= 1
    /\ LET kind == DeclarationOrder[dpos].kind
           ps == { DeclarationOrder[k].p : k \in RunStart(dpos)..dpos }
       IN
         /\ relay' = IF kind = "relay" THEN relay \ ps ELSE relay
         /\ attachment' = IF kind = "attachment"
                          THEN attachment \ ps ELSE attachment
         /\ webView' = IF kind = "webView" THEN "destroyed" ELSE webView
         /\ visible' = IF kind = "webView" THEN FALSE ELSE visible
         /\ timerRunning' = IF kind = "visualizerTimer"
                            THEN FALSE ELSE timerRunning
    /\ dpos' = RunStart(dpos) - 1
    /\ pc' = IF RunStart(dpos) = 1 THEN "destroyed" ELSE "members"
    /\ UNCHANGED << cpos, registered, listeners, feedVars, emitted, lastEmit,
                    crashed, activationVars, bridgeVars >>
    /\ UNCHANGED lifecycleVars
    /\ UNCHANGED resourceVars

\* ------------------------------------------------------- event emission

\* what the emission primitive is handed, and the state it was handed it in
Emission(path, thread, id, data) ==
    [ path |-> path, thread |-> thread, view |-> webView, visible |-> visible,
      delivered |-> (webView = "alive" /\ visible), id |-> id, data |-> data,
      handle |-> activation, wasConfigured |-> isConfigured,
      wasActivated |-> isActivated ]

\* a plausible slip: the event is emitted whether the browser is visible or not
EmitEventAlways(path, thread, id, data) ==
    /\ lastEmit' = [Emission(path, thread, id, data) EXCEPT !.delivered = TRUE]
    /\ emitted' = [emitted EXCEPT ![id] = @ + 1]
    /\ crashed' = FALSE

\* webView->emitEventIfBrowserIsVisible(id, data) on a live view: the event
\* reaches the browser if the browser is visible and is dropped otherwise
EmitEventIfBrowserIsVisible(path, thread, id, data) ==
    /\ lastEmit' = Emission(path, thread, id, data)
    /\ emitted' = IF visible THEN [emitted EXCEPT ![id] = @ + 1] ELSE emitted
    /\ crashed' = FALSE

\* the expression webView->emitEventIfBrowserIsVisible(id, data). With webView
\* null, or read through an editor that has been destroyed, the dereference is
\* undefined behaviour: the process dies, nothing happens, or the call goes
\* through on the dead object
DerefWebView(path, thread, id, data) ==
    IF webView = "alive"
    THEN EmitEventIfBrowserIsVisible(path, thread, id, data)
    ELSE /\ lastEmit' = Emission(path, thread, id, data)
         /\ \/ crashed' = TRUE /\ emitted' = emitted
            \/ crashed' = FALSE /\ emitted' = emitted
            \/ crashed' = FALSE /\ emitted' = [emitted EXCEPT ![id] = @ + 1]

\* -------------------------------------------------------- visualizer feed

\* the seven accessors of the DSP engine, read from the UI thread
EngineSnapshots ==
    { [ rms |-> 0, peak |-> 0, wobblePhase |-> 0, crackleActivity |-> 0,
        mode |-> 0, bypassed |-> TRUE, degradation |-> 0 ],
      [ rms |-> 1, peak |-> 2, wobblePhase |-> 1, crackleActivity |-> 1,
        mode |-> 1, bypassed |-> FALSE, degradation |-> 1 ] }

\* data->setProperty("rms", getCurrentRMS()) ... ("degradation", ...)
VisualizerData(e) ==
    [ rms |-> e.rms, peak |-> e.peak, wobblePhase |-> e.wobblePhase,
      crackleActivity |-> e.crackleActivity, mode |-> e.mode,
      bypassed |-> e.bypassed, degradation |-> e.degradation ]

\* a plausible slip: the payload is emitted without the visibility test
TimerCallbackBodyEmitAlways ==
    IF webView = "null"
    THEN UNCHANGED << samples, emitted, lastEmit, crashed >>
    ELSE /\ samples' = samples + 1
         /\ \E e \in EngineSnapshots :
                EmitEventAlways("timer", "ui", "visualizerData", VisualizerData(e))

\* a plausible slip: the callback also returns early when the view is hidden
TimerCallbackBodyVisibleOnly ==
    IF webView = "null" \/ ~visible
    THEN UNCHANGED << samples, emitted, lastEmit, crashed >>
    ELSE /\ samples' = samples + 1
         /\ \E e \in EngineSnapshots :
                DerefWebView("timer", "ui", "visualizerData", VisualizerData(e))

\* VisualizerTimer::timerCallback(): returns when webView is null; otherwise
\* reads the seven values, builds the payload and hands it to the view
TimerCallbackBody ==
    IF webView = "null"
    THEN UNCHANGED << samples, emitted, lastEmit, crashed >>
    ELSE /\ samples' = samples + 1
         /\ \E e \in EngineSnapshots :
                DerefWebView("timer", "ui", "visualizerData", VisualizerData(e))

\* the UI thread's message loop runs callbacks only between handlers, never
\* inside the constructor or the destructor
UiIdle == ~crashed /\ pc \in {"live", "destroyed"}

\* one tick of the running timer
TimerCallback ==
    /\ UiIdle
    /\ timerRunning
    /\ ticks + requests < MaxInputs
    /\ ticks' = ticks + 1
    /\ TimerCallbackBody
    /\ UNCHANGED << editorVars, activationVars, bridgeVars >>
    /\ UNCHANGED lifecycleVars
    /\ UNCHANGED resourceVars

\* the host shows or hides the editor's view
SetVisible ==
    /\ UiIdle
    /\ pc = "live"
    /\ webView = "alive"
    /\ visible' = ~visible
    /\ UNCHANGED << pc, cpos, dpos, relay, registered, attachment, listeners,
                    webView, timerRunning, feedVars, emitted, lastEmit, crashed,
                    activationVars, bridgeVars >>
    /\ UNCHANGED lifecycleVars
    /\ UNCHANGED resourceVars

\* ------------------------------------------------------ activation bridge

Codes == {"GOOD-CODE", "BAD-CODE"}

\* the terminal outcomes the subsystem may report for an activate(code): an
\* unconfigured subsystem refuses, a configured one validates the code or
\* fails to reach the server
ActivateOutcomes(code) ==
    IF ~isConfigured THEN {"NotConfigured"}
    ELSE IF code = "GOOD-CODE" THEN {"Valid", "NetworkError"}
                               ELSE {"Invalid", "NetworkError"}

\* the terminal outcomes the subsystem may report for a deactivate()
DeactivateOutcomes == {"Valid", "NetworkError"}

\* beatconnect::ActivationInfo as the subsystem reports it
ActivationInfoOf(code, status) ==
    [ activationCode |-> IF status = "Valid" THEN code ELSE "",
      machineId |-> IF status = "Valid" THEN "machine" ELSE "",
      activatedAt |-> IF status = "Valid" THEN "now" ELSE "",
      currentActivations |-> IF status = "Valid" THEN 1 ELSE 0,
      maxActivations |-> IF status = "Valid" THEN 1 ELSE 0,
      isValid |-> (status = "Valid") ]

\* infoObj->setProperty(...) six times
InfoObj(info) ==
    [ activationCode |-> info.activationCode, machineId |-> info.machineId,
      activatedAt |-> info.activatedAt,
      currentActivations |-> info.currentActivations,
      maxActivations |-> info.maxActivations, isValid |-> info.isValid ]

\* the documented lifecycle: Unconfigured -> Configured -> Activating ->
\* (Activated | Failed) -> Deactivating -> Configured
LifecycleAfterCall(kind) ==
    IF kind = "activate" THEN "Activating" ELSE "Deactivating"

LifecycleAfterActivate(status) ==
    IF status = "Valid" THEN "Activated" ELSE "Failed"

LifecycleAfterDeactivate == "Configured"

\* a browser event reaches its listener on the UI thread of a live editor
BrowserEvent(name) ==
    /\ UiIdle
    /\ pc = "live"
    /\ webView = "alive"
    /\ name \in listeners
    /\ ticks + requests < MaxInputs
    /\ requests' = requests + 1

\* the payload the getActivationStatus listener builds
GetActivationStatusData ==
    [ isConfigured |-> IF activationBuild THEN hasActivationEnabled ELSE FALSE,
      isActivated |-> FALSE ]

\* the "getActivationStatus" listener of setupWebView
GetActivationStatus ==
    /\ BrowserEvent("getActivationStatus")
    /\ DerefWebView("getActivationStatus", "ui", "activationState",
                    GetActivationStatusData)
    /\ UNCHANGED << editorVars, feedVars, activationVars, pending, msgQueue,
                    forwarded, outcomes >>
    /\ UNCHANGED lifecycleVars
    /\ UNCHANGED resourceVars

\* the payload sendActivationState() builds from the subsystem's state
\* (sendActivationState is reached only through handleGetActivationStatus,
\* which nothing calls)
SendActivationStateData ==
    IF isActivated
    THEN [ isConfigured |-> isConfigured, isActivated |-> isActivated,
           info |-> InfoObj(ActivationInfoOf("GOOD-CODE", "Valid")) ]
    ELSE [ isConfigured |-> isConfigured, isActivated |-> isActivated ]

\* a plausible variant: the handler forwards only from the Configured state
\* and ignores the event otherwise
ActivateLicenseOnlyFromConfigured ==
    /\ BrowserEvent("activateLicense")
    /\ licenseRequests' = licenseRequests + 1
    /\ \E code \in Codes :
         IF activation = "null" \/ lifecycle # "Configured"
         THEN UNCHANGED << pending, forwarded, lifecycle >>
         ELSE /\ pending' = Append(pending, [kind |-> "activate", code |-> code])
              /\ forwarded' = forwarded + 1
              /\ lifecycle' = LifecycleAfterCall("activate")
    /\ UNCHANGED << editorVars, feedVars, emitted, lastEmit, crashed,
                    activationVars, msgQueue, outcomes >>
    /\ UNCHANGED resourceVars

\* handleActivateLicense(data): nothing with a null handle, otherwise
\* activation->activate(code, callback)
ActivateLicense ==
    /\ BrowserEvent("activateLicense")
    /\ licenseRequests' = licenseRequests + 1
    /\ \E code \in Codes :
         IF activation = "null"
         THEN UNCHANGED << pending, forwarded, lifecycle >>
         ELSE /\ pending' = Append(pending, [kind |-> "activate", code |-> code])
              /\ forwarded' = forwarded + 1
              /\ lifecycle' = LifecycleAfterCall("activate")
    /\ UNCHANGED << editorVars, feedVars, emitted, lastEmit, crashed,
                    activationVars, msgQueue, outcomes >>
    /\ UNCHANGED resourceVars

\* handleDeactivateLicense(data): nothing with a null handle, otherwise
\* activation->deactivate(callback)
DeactivateLicense ==
    /\ BrowserEvent("deactivateLicense")
    /\ licenseRequests' = licenseRequests + 1
    /\ IF activation = "null"
       THEN UNCHANGED << pending, forwarded, lifecycle >>
       ELSE /\ pending' = Append(pending, [kind |-> "deactivate", code |-> ""])
            /\ forwarded' = forwarded + 1
            /\ lifecycle' = LifecycleAfterCall("deactivate")
    /\ UNCHANGED << editorVars, feedVars, emitted, lastEmit, crashed,
                    activationVars, msgQueue, outcomes >>
    /\ UNCHANGED resourceVars

\* a plausible slip: info attached whatever the status
ActivationResultDataAlwaysInfo(status, info) ==
    [ status |-> status, info |-> InfoObj(info) ]

\* the result object of the activate completion: status, and info when Valid
ActivationResultData(status, info) ==
    IF status = "Valid"
    THEN [ status |-> status, info |-> InfoObj(info) ]
    ELSE [ status |-> status ]

\* the result object of the deactivate completion
DeactivationResultData(status) == [ status |-> status ]

\* the body of a callAsync lambda, run by `thread`: builds the result object
\* and hands it to the view through the captured this
RunTask(thread, task) ==
    IF task.id = "activationResult"
    THEN DerefWebView("activationResult", thread, "activationResult",
                      ActivationResultData(task.status, task.info))
    ELSE DerefWebView("deactivationResult", thread, "deactivationResult",
                      DeactivationResultData(task.status))

\* a plausible slip: the completion callback drives the view itself, on the
\* thread the subsystem calls it on
CompletionCallbackDirect(task) ==
    /\ RunTask("worker", task)
    /\ msgQueue' = msgQueue

\* the completion callbacks handed to activate() and deactivate():
\* juce::MessageManager::callAsync(lambda) and nothing else
CompletionCallback(task) ==
    /\ msgQueue' = Append(msgQueue, task)
    /\ UNCHANGED << emitted, lastEmit, crashed >>

Remove(seq, i) == [j \in 1..(Len(seq) - 1) |-> IF j < i THEN seq[j] ELSE seq[j + 1]]

\* the subsystem's worker finishes an activate(code) and calls its callback
CompleteActivate ==
    /\ ~crashed
    /\ \E i \in 1..Len(pending) :
         /\ pending[i].kind = "activate"
         /\ \E status \in ActivateOutcomes(pending[i].code) :
              /\ isActivated' = (isActivated \/ status = "Valid")
              /\ lifecycle' = LifecycleAfterActivate(status)
              /\ CompletionCallback(
                   [ id |-> "activationResult", status |-> status,
                     info |-> ActivationInfoOf(pending[i].code, status) ])
         /\ pending' = Remove(pending, i)
    /\ outcomes' = outcomes + 1
    /\ UNCHANGED << editorVars, feedVars, activationBuild, activation,
                    hasActivationEnabled, isConfigured, requests, forwarded,
                    licenseRequests >>
    /\ UNCHANGED resourceVars

\* the subsystem's worker finishes a deactivate() and calls its callback
CompleteDeactivate ==
    /\ ~crashed
    /\ \E i \in 1..Len(pending) :
         /\ pending[i].kind = "deactivate"
         /\ \E status \in DeactivateOutcomes :
              /\ isActivated' = (isActivated /\ status # "Valid")
              /\ lifecycle' = LifecycleAfterDeactivate
              /\ CompletionCallback(
                   [ id |-> "deactivationResult", status |-> status,
                     info |-> ActivationInfoOf("", status) ])
         /\ pending' = Remove(pending, i)
    /\ outcomes' = outcomes + 1
    /\ UNCHANGED << editorVars, feedVars, activationBuild, activation,
                    hasActivationEnabled, isConfigured, requests, forwarded,
                    licenseRequests >>
    /\ UNCHANGED resourceVars

\* the UI thread's message loop runs the task at the head of its queue
DispatchMessage ==
    /\ UiIdle
    /\ msgQueue # << >>
    /\ RunTask("ui", Head(msgQueue))
    /\ msgQueue' = Tail(msgQueue)
    /\ UNCHANGED << editorVars, feedVars, activationVars, pending, requests,
                    forwarded, outcomes >>
    /\ UNCHANGED lifecycleVars
    /\ UNCHANGED resourceVars

Next ==
    \/ MakeRelay
    \/ WithOptionsFrom
    \/ WithEventListener
    \/ MakeWebView
    \/ MakeAttachment
    \/ StartTimerHz
    \/ DestructorBody
    \/ DestroyMember
    \/ TimerCallback
    \/ SetVisible
    \/ GetActivationStatus
    \/ ActivateLicense
    \/ DeactivateLicense
    \/ CompleteActivate
    \/ CompleteDeactivate
    \/ DispatchMessage

Spec == Init /\ [][Next]_vars

\* ------------------------------------------------- resource requests alone

\* a live editor of a build without activation, over each installation
InitResources ==
    /\ pc = "live"
    /\ cpos = Len(ConstructorBody) + 1
    /\ dpos = 0
    /\ relay = Params
    /\ registered = Params
    /\ attachment = Params
    /\ listeners = {"getActivationStatus"}
    /\ webView = "alive"
    /\ visible = TRUE
    /\ timerRunning = TRUE
    /\ ticks = 0
    /\ samples = 0
    /\ emitted = [e \in EventIds |-> 0]
    /\ lastEmit = NoEmit
    /\ crashed = FALSE
    /\ activationBuild = FALSE
    /\ activation = "null"
    /\ hasActivationEnabled = FALSE
    /\ isConfigured = FALSE
    /\ isActivated = FALSE
    /\ pending = << >>
    /\ msgQueue = << >>
    /\ requests = 0
    /\ forwarded = 0
    /\ outcomes = 0
    /\ lifecycle = "Unconfigured"
    /\ licenseRequests = 0
    /\ disk \in Disks
    /\ request = NoRequest
    /\ response = NullOpt

\* the browser asks the provider for a url; the lambda writes no member
ServeResource ==
    /\ ~crashed
    /\ webView = "alive"
    /\ \E url \in Urls :
         /\ request' = [asked |-> TRUE, url |-> url]
         /\ response' = ResourceProvider(url)
    /\ UNCHANGED << editorVars, feedVars, emitted, lastEmit, crashed,
                    activationVars, bridgeVars, lifecycleVars, disk >>

NextResources == ServeResource

SpecResources == InitResources /\ [][NextResources]_vars

\* ------------------------------------------------------------------ claims

ActivationEventIds == { "activationState", "activationResult", "deactivationResult" }

ResultEvents == emitted["activationResult"] + emitted["deactivationResult"]

VisualizerFields == { "rms", "peak", "wobblePhase", "crackleActivity", "mode",
                      "bypassed", "degradation" }

\* C1 as stated: once the browser view has been destroyed no relay and no
\* attachment is alive any more (a relay never outlives the view it feeds).
C1_NothingOutlivesView ==
    webView = "destroyed" => relay = {} /\ attachment = {}

\* C1 as amended: the destructor stops the timer, then the members go in
\* reverse declaration order: the browser view is destroyed while all fifteen
\* relays and all fifteen attachments are still alive, the attachments are
\* destroyed after the view and before the relays (no attachment outlives its
\* relay), and when the destructor is done nothing is alive.
C1_TeardownOrder ==
    /\ pc \in {"members", "destroyed"} => ~timerRunning
    /\ pc = "members" /\ webView = "alive"
          => relay = Params /\ attachment = Params
    /\ attachment \subseteq relay
    /\ pc = "destroyed"
          => relay = {} /\ attachment = {} /\ webView = "destroyed"

\* the view has just been destroyed and every relay and attachment is alive
C1_Witness ==
    /\ pc = "members"
    /\ webView = "destroyed"
    /\ relay = Params
    /\ attachment = Params

\* C2: in the constructor every relay is created before it is registered in
\* the options, all fifteen are registered before the browser view is
\* constructed, and no attachment is alive while webView is still null.
C2_ConstructionOrder ==
    /\ pc = "constructor" => registered \subseteq relay
    /\ webView # "null" => registered = Params
    /\ pc = "constructor" /\ webView # "null" => relay = Params
    /\ attachment # {} => webView # "null"
    /\ pc = "constructor" /\ attachment # {} => webView = "alive"

\* the constructor has made the view and then all fifteen attachments
C2_Witness ==
    /\ pc = "constructor"
    /\ webView = "alive"
    /\ registered = Params
    /\ attachment = Params

\* C3 as stated: every terminal outcome yields exactly one result event
\* whatever state the view is in: in a live editor the result events
\* delivered plus the completions still queued equal the outcomes reported.
C3_ExactlyOneResultEvent ==
    pc = "live" /\ ~crashed => ResultEvents + Len(msgQueue) = outcomes

\* C4 as stated: the activationState event a getActivationStatus request
\* emits carries the subsystem's isConfigured() and isActivated() as they were
\* at the request (taking hasActivationEnabled() to mirror isConfigured()).
C4_StatusReportsCurrentState ==
    ( /\ lastEmit.path = "getActivationStatus"
      /\ lastEmit.handle = "present"
      /\ hasActivationEnabled = isConfigured )
    => /\ lastEmit.data.isConfigured = lastEmit.wasConfigured
       /\ lastEmit.data.isActivated = lastEmit.wasActivated

\* C5 as stated: on every emitting path the view is dereferenced only when
\* it is there (neither null nor destroyed).
C5_ViewDereferencedOnlyWhenPresent ==
    lastEmit.path # "none" => lastEmit.view = "alive"

\* C6 as stated: with a null activation handle no activation-related
\* operation emits an event or calls the subsystem.
C6_NullHandleIsNoOp ==
    activationBuild /\ activation = "null"
    => /\ lastEmit.id \notin ActivationEventIds
       /\ \A id \in ActivationEventIds : emitted[id] = 0
       /\ forwarded = 0

\* C7: a tick delivers exactly one visualizerData event, with the seven
\* metering fields, when the view exists and is visible, and none when it is
\* hidden or absent; no other step delivers one (no backlog).
C7_OneEventPerVisibleTick ==
    /\ [](lastEmit.id = "visualizerData"
            => DOMAIN lastEmit.data = VisualizerFields)
    /\ [][ /\ ticks' = ticks + 1
              => emitted'["visualizerData"] = emitted["visualizerData"]
                   + (IF webView = "alive" /\ visible THEN 1 ELSE 0)
           /\ ticks' = ticks
              => emitted'["visualizerData"] = emitted["visualizerData"] ]_vars

\* two ticks, one while visible and the latest while hidden: one event
C7_Witness ==
    /\ ticks = 2
    /\ emitted["visualizerData"] = 1
    /\ lastEmit.path = "timer"
    /\ ~lastEmit.visible

\* C8 as stated: a tick reads the metering values if and only if the view
\* exists and is visible.
C8_SamplesIffVisible ==
    [][ ticks' = ticks + 1
        => (samples' = samples + 1 <=> (webView = "alive" /\ visible)) ]_vars

\* C8 as amended: a tick reads the metering values and builds the payload if
\* and only if webView is non-null, whether the view is visible or hidden
\* (a hidden view only makes the emission primitive drop the payload); no
\* other step reads them.
C8_SamplesIffViewExists ==
    [][ /\ ticks' = ticks + 1
           => samples' = samples + (IF webView # "null" THEN 1 ELSE 0)
        /\ ticks' = ticks => samples' = samples ]_vars

\* the latest tick found the view hidden, read the meters and built a payload
C8_Witness ==
    /\ samples >= 1
    /\ lastEmit.path = "timer"
    /\ lastEmit.view = "alive"
    /\ ~lastEmit.visible
    /\ ~lastEmit.delivered

\* C9: a completion callback only enqueues a task on the UI thread's queue
\* and does not touch the view; every emission of a result event is made by
\* the UI thread.
C9_CompletionsEmitOnUiThread ==
    /\ [](lastEmit.path \in {"activationResult", "deactivationResult"}
            => lastEmit.thread = "ui")
    /\ [][ outcomes' # outcomes
           => /\ Len(msgQueue') = Len(msgQueue) + 1
              /\ emitted' = emitted
              /\ lastEmit.path = lastEmit'.path
              /\ lastEmit.thread = lastEmit'.thread ]_vars

\* a result event that the UI thread delivered from a queued task
C9_Witness ==
    /\ lastEmit.path = "activationResult"
    /\ lastEmit.thread = "ui"
    /\ lastEmit.delivered
    /\ outcomes >= 1

\* C10: an activationResult carries info exactly when its status is Valid,
\* an activationState exactly when its isActivated is true (the listener's
\* event, and the payload sendActivationState builds in any state), and a
\* deactivationResult never.
C10_InfoIffSuccess ==
    /\ lastEmit.id = "activationResult"
          => ("info" \in DOMAIN lastEmit.data <=> lastEmit.data.status = "Valid")
    /\ lastEmit.id = "activationState"
          => ("info" \in DOMAIN lastEmit.data <=> lastEmit.data.isActivated)
    /\ lastEmit.id = "deactivationResult"
          => "info" \notin DOMAIN lastEmit.data
    /\ "info" \in DOMAIN SendActivationStateData
          <=> SendActivationStateData.isActivated

\* an invalid code was answered with status "Invalid" and no info
C10_Witness ==
    /\ lastEmit.id = "activationResult"
    /\ lastEmit.delivered
    /\ lastEmit.data.status = "Invalid"
    /\ "info" \notin DOMAIN lastEmit.data

ParameterKeys == { ParameterIDs[i] : i \in Params }

\* C13: in a live editor every parameter key has exactly one relay and at
\* most one attachment, every attachment binds the parameter of its key to
\* the live relay made for that same key, and no relay serves two attachments.
C13_OneRelayOneAttachmentPerKey ==
    pc = "live"
    => /\ \A key \in ParameterKeys :
            /\ Cardinality({ r \in relay : RelayKey[r] = key }) = 1
            /\ Cardinality({ a \in attachment : AttachmentParameter[a] = key }) <= 1
       /\ \A a \in attachment :
            /\ AttachmentRelay[a] \in relay
            /\ RelayKey[AttachmentRelay[a]] = AttachmentParameter[a]
       /\ \A a, b \in attachment :
            a # b => AttachmentRelay[a] # AttachmentRelay[b]

\* a live editor with its fifteen relays and fifteen attachments
C13_Witness ==
    /\ pc = "live"
    /\ Cardinality(relay) = Cardinality(ParameterKeys)
    /\ attachment = Params
    /\ webView = "alive"

\* C17 as stated: a queued completion task emits only while the editor that
\* issued the request is alive; it never goes through a destroyed editor's
\* view.
C17_NoEmissionThroughDestroyedEditor ==
    lastEmit.path \in {"activationResult", "deactivationResult"}
    => lastEmit.view # "destroyed"

\* C18: the timer runs only in a fully constructed editor none of whose
\* members has been destroyed: it is started after the view and the fifteen
\* attachments exist and is stopped before the first member is destroyed, and
\* every tick finds the editor whole.
C18_TimerOnlyWhileWhole ==
    /\ [](timerRunning
            => /\ pc = "live"
               /\ webView = "alive"
               /\ relay = Params
               /\ attachment = Params)
    /\ [](pc = "members" => ~timerRunning)
    /\ [][ticks' # ticks
            => /\ pc = "live"
               /\ webView = "alive"
               /\ relay = Params
               /\ attachment = Params ]_vars

\* the destructor has stopped a timer that has ticked, and no member is gone
C18_Witness ==
    /\ pc = "members"
    /\ dpos = Len(DeclarationOrder)
    /\ ~timerRunning
    /\ ticks >= 1
    /\ webView = "alive"
    /\ attachment = Params
    /\ relay = Params

\* C14 as stated: a call is forwarded to the subsystem only along the
\* documented lifecycle: activate only from Configured, deactivate only from
\* Activated or Failed, and never while another request is pending.
C14_ForwardsFollowLifecycle ==
    [][ forwarded' = forwarded + 1
        => /\ pending = << >>
           /\ pending'[Len(pending')].kind = "activate"
                 => lifecycle = "Configured"
           /\ pending'[Len(pending')].kind = "deactivate"
                 => lifecycle \in {"Activated", "Failed"} ]_vars

\* C14 as amended: the bridge enforces no lifecycle order. Every
\* activateLicense and deactivateLicense event handled with a non-null handle
\* is forwarded to the subsystem exactly once, whatever the lifecycle state
\* and whether or not an earlier request is pending; with a null handle none
\* is forwarded; every forwarded call is pending or has reported its outcome.
C14_EveryRequestForwarded ==
    /\ forwarded = IF activation = "present" THEN licenseRequests ELSE 0
    /\ Len(pending) + outcomes = forwarded

\* a second request was forwarded while the first was still pending
C14_Witness ==
    /\ activation = "present"
    /\ Len(pending) = 2
    /\ forwarded = 2
    /\ lifecycle \in {"Activating", "Deactivating"}

\* the part of a path after the last "." of its last segment
Extension(path) ==
    LET name == Substring(path, LastIndexOfChar(path, "/"))
        dot == LastIndexOfChar(name, ".")
    IN  IF dot = 0 THEN << >> ELSE Substring(name, dot)

MimeOfExtension(ext) ==
    CASE ext = << "h", "t", "m", "l" >> -> "text/html"
      [] ext = << "c", "s", "s" >> -> "text/css"
      [] ext = << "j", "s" >> -> "application/javascript"
      [] ext = << "j", "s", "o", "n" >> -> "application/json"
      [] ext = << "p", "n", "g" >> -> "image/png"
      [] ext = << "s", "v", "g" >> -> "image/svg+xml"
      [] ext = << "w", "o", "f", "f", "2" >> -> "font/woff2"
      [] OTHER -> "application/octet-stream"

UnderResources(file) == StartsWith(file, resourcesDir_ \o << "/" >>)

\* C15: the provider answers "/" exactly as it answers "/index.html", and
\* every request that does not name an existing file under the resources
\* directory is answered with nullopt.
C15_RootIsIndexAndMissingIsNotFound ==
    /\ ResourceProvider(<< "/" >>) = ResourceProvider(<< "/" >> \o IndexHtml)
    /\ request.asked
         => LET file == GetChildFile(resourcesDir_, RequestedPath(request.url))
            IN  ~(ExistsAsFile(file) /\ UnderResources(file))
                   => response = NullOpt

\* C16: the MIME type of every resource found is the one the table gives for
\* the extension of the requested path, and application/octet-stream for an
\* extension outside the table; .json is never taken for .js.
C16_MimeByExtension ==
    (request.asked /\ response.found)
        => /\ response.mimeType
                 = MimeOfExtension(Extension(RequestedPath(request.url)))
           /\ EndsWith(request.url, << ".", "j", "s", "o", "n" >>)
                 => response.mimeType = "application/json"

\* an existing .json file was requested and served as application/json
C16_Witness ==
    /\ request.asked
    /\ response.found
    /\ request.url = << "/", "a", ".", "j", "s", "o", "n" >>
    /\ response.mimeType = "application/json"

====
